---- MODULE Spec2Model ----
(***************************************************************************)
(* Model of dashboard_waze.py: the location parser (_parse_location_column *)
(* and its inner _extract_lat_lon), the dataset builder (load_data), and   *)
(* the page built on its result: the sidebar filter, the PDF export        *)
(* (get_cached_pdf) and the map (generate_waze_map).                       *)
(*                                                                         *)
(* Strings are sequences of one-character strings.  A missing cell (NaN /  *)
(* None) is the one-element sequence NaN, which is no string of            *)
(* characters.  Floats are exact decimal fractions [num, den] in lowest    *)
(* power-of-ten terms; every literal of the model is short enough for the  *)
(* decimal -> double conversion to be exact on comparisons.                *)
(***************************************************************************)
EXTENDS Integers, Sequences, FiniteSets, TLC

VARIABLES
    val,        \* parser: the cell handed to _extract_lat_lon
    wrapped,    \* parser: whether the cell text has been framed
    phase,      \* parser: "input" or "parsed"
    res,        \* parser: the (lat, lon) pair returned, or Unset
    pc,         \* load_data: "loop", "fallback", "concat", "done", "raised"
    idx,        \* load_data: position in FILES of the next file of the loop
    disk,       \* what the script's folder held for each file of FILES
    uploaded,   \* the files given to the uploader of the fallback
    dfs,        \* load_data: the normalised tables read so far
    missing,    \* load_data: the names of the files not found
    log,        \* the st.warning and st.error messages shown
    exc,        \* the exception load_data ended with, or "none"
    waze,       \* the table load_data returned
    stage,      \* the script: "load", "sidebar", "export", "body", "end", "failed"
    ville,      \* the cities chosen in the sidebar
    date_range, \* the value of the date input of the sidebar
    df_shown,   \* the table df the page shows (lines 507-513)
    pdf,        \* what get_cached_pdf gave
    fmap        \* what the map section of the page gave

pvars == <<val, wrapped, phase, res>>
bvars == <<pc, idx, disk, uploaded, dfs, missing, log, exc, waze>>
dvars == <<stage, ville, date_range, df_shown, pdf, fmap>>
vars == <<val, wrapped, phase, res, pc, idx, disk, uploaded, dfs, missing, log,
          exc, waze, stage, ville, date_range, df_shown, pdf, fmap>>

-----------------------------------------------------------------------------
(* Bounds *)

\* longest cell text typed character by character
MaxLen == 3
\* most files of FILES that exist in the script's folder
MaxFiles == 2
\* most files given to the uploader
MaxUploads == 2
\* most cities chosen in the sidebar
MaxVille == 2

-----------------------------------------------------------------------------
(* Values *)

\* A text the model never looks inside is one symbol; a text it parses is
\* its characters.
Text(w) == <<w>>

\* the missing value of a text column, of a number column, of a date column
NaN == <<"NaN">>
NumNaN == [num |-> 0, den |-> 0 - 3]
NaT == [y |-> 0, m |-> 0, d |-> 0]
None == [num |-> 0, den |-> 0]
\* what float() raises on a text that is no number, as a value
ValueError == [num |-> 0, den |-> 0 - 2]
\* a text in a coordinate column that float() rejects
NotNumber == [num |-> 0, den |-> 0 - 4]
\* the pair of a call that has not returned, and of one that raised
Unset == <<[num |-> 0, den |-> 0 - 1], [num |-> 0, den |-> 0 - 1]>>
Raised == <<ValueError, ValueError>>

isna(v) == v = NaN

-----------------------------------------------------------------------------
(* Character classes of the two patterns *)

ClsDigit == {"0", "1", "2", "3", "4", "5", "6", "7", "8", "9"}
ClsSign == {"-", "+"}
ClsDot == {"."}
ClsSpace == {" ", "\t"}
ClsSepPoint == ClsSpace \cup {","}
ClsSepLoose == ClsSpace \cup {",", ";"}

\* one pattern item: a character class, quantified ? * + or once, inside
\* capture group grp (0: none)
Item(cls, min, many, grp) == [cls |-> cls, min |-> min, many |-> many, grp |-> grp]
Once(cls) == Item(cls, 1, FALSE, 0)
Star(cls) == Item(cls, 0, TRUE, 0)
Plus(cls) == Item(cls, 1, TRUE, 0)

\* mutant of NumberItems: the last digits optional, [-+]?\d*\.?\d*
NumberItemsLax(g) ==
    << Item(ClsSign, 0, FALSE, g), Item(ClsDigit, 0, TRUE, g),
       Item(ClsDot, 0, FALSE, g), Item(ClsDigit, 0, TRUE, g) >>

\* [-+]?\d*\.?\d+ as capture group g
NumberItems(g) ==
    << Item(ClsSign, 0, FALSE, g), Item(ClsDigit, 0, TRUE, g),
       Item(ClsDot, 0, FALSE, g), Item(ClsDigit, 1, TRUE, g) >>

\* POINT\s*\(\s*([-+]?\d*\.?\d+)[\s,]+([-+]?\d*\.?\d+)\s*\)  with re.IGNORECASE
PointPattern ==
    << Once({"P", "p"}), Once({"O", "o"}), Once({"I", "i"}), Once({"N", "n"}),
       Once({"T", "t"}), Star(ClsSpace), Once({"("}), Star(ClsSpace) >>
    \o NumberItems(1) \o << Plus(ClsSepPoint) >> \o NumberItems(2)
    \o << Star(ClsSpace), Once({")"}) >>

\* ([-+]?\d*\.?\d+)[\s,;]+([-+]?\d*\.?\d+)
LoosePattern ==
    NumberItems(1) \o << Plus(ClsSepLoose) >> \o NumberItems(2)

-----------------------------------------------------------------------------
(* re.search: leftmost start, greedy quantifiers, backtracking *)

NoMatch == [ok |-> FALSE, start |-> 0, ends |-> <<>>]

RECURSIVE RunLen(_, _, _)
\* how many consecutive characters of s from pos on lie in cls
RunLen(s, pos, cls) ==
    IF pos <= Len(s) /\ s[pos] \in cls THEN 1 + RunLen(s, pos + 1, cls) ELSE 0

MaxTake(s, pos, item) ==
    LET run == RunLen(s, pos, item.cls)
    IN  IF item.many THEN run ELSE IF run > 0 THEN 1 ELSE 0

RECURSIVE MatchHere(_, _, _, _)
RECURSIVE TryTake(_, _, _, _, _)
\* items k.. of re matched at pos: the end position of every item, longest
\* take of each item first
MatchHere(re, k, s, pos) ==
    IF k > Len(re)
    THEN [ok |-> TRUE, start |-> 0, ends |-> <<>>]
    ELSE TryTake(re, k, s, pos, MaxTake(s, pos, re[k]))

TryTake(re, k, s, pos, n) ==
    IF n < re[k].min
    THEN NoMatch
    ELSE LET rest == MatchHere(re, k + 1, s, pos + n)
         IN  IF rest.ok
             THEN [ok |-> TRUE, start |-> 0, ends |-> <<pos + n>> \o rest.ends]
             ELSE TryTake(re, k, s, pos, n - 1)

RECURSIVE SearchFrom(_, _, _)
SearchFrom(re, s, i) ==
    IF i > Len(s) + 1
    THEN NoMatch
    ELSE LET m == MatchHere(re, 1, s, i)
         IN  IF m.ok THEN [m EXCEPT !.start = i] ELSE SearchFrom(re, s, i + 1)

search(re, s) == SearchFrom(re, s, 1)

\* m.group(g): the text the items of group g took
group(re, s, m, g) ==
    LET ks == {k \in 1..Len(re) : re[k].grp = g}
        first == CHOOSE k \in ks : \A j \in ks : k <= j
        last == CHOOSE k \in ks : \A j \in ks : k >= j
        from == IF first = 1 THEN m.start ELSE m.ends[first - 1]
    IN  SubSeq(s, from, m.ends[last] - 1)

-----------------------------------------------------------------------------
(* float() of a text the number pattern matched *)

DigitVal(c) ==
    CASE c = "0" -> 0 [] c = "1" -> 1 [] c = "2" -> 2 [] c = "3" -> 3
      [] c = "4" -> 4 [] c = "5" -> 5 [] c = "6" -> 6 [] c = "7" -> 7
      [] c = "8" -> 8 [] c = "9" -> 9

RECURSIVE Normal(_, _)
Normal(num, den) ==
    IF den > 1 /\ num % 10 = 0 THEN Normal(num \div 10, den \div 10)
    ELSE [num |-> num, den |-> den]

RECURSIVE Digits(_, _, _, _)
\* reads t from position i on: acc is the digits read so far as an integer,
\* den the power of ten of the fraction digits read so far (0: no dot yet)
Digits(t, i, acc, den) ==
    IF i > Len(t) THEN [num |-> acc, den |-> IF den = 0 THEN 1 ELSE den]
    ELSE IF t[i] = "." THEN Digits(t, i + 1, acc, 1)
    ELSE Digits(t, i + 1, 10 * acc + DigitVal(t[i]), 10 * den)

\* the texts over signs, digits and dots that float() accepts: an optional
\* sign, then digits with at most one dot among them, at least one digit
FloatLiteral(t) ==
    LET signed == Len(t) > 0 /\ t[1] \in ClsSign
        body == IF signed THEN Tail(t) ELSE t
    IN  /\ \A i \in 1..Len(body) : body[i] \in ClsDigit \cup ClsDot
        /\ \E i \in 1..Len(body) : body[i] \in ClsDigit
        /\ Cardinality({i \in 1..Len(body) : body[i] \in ClsDot}) <= 1

float(t) ==
    LET signed == Len(t) > 0 /\ t[1] \in ClsSign
        mag == Digits(t, IF signed THEN 2 ELSE 1, 0, 0)
        num == IF signed /\ t[1] = "-" THEN 0 - mag.num ELSE mag.num
    IN  IF FloatLiteral(t) THEN Normal(num, mag.den) ELSE ValueError

\* mutant of Between: the ends of the band left out
BetweenStrict(lo, f, hi) == lo * f.den < f.num /\ f.num < hi * f.den

\* lo <= f <= hi for integers lo, hi
Between(lo, f, hi) == lo * f.den <= f.num /\ f.num <= hi * f.den

-----------------------------------------------------------------------------
(* _extract_lat_lon *)

BandLo == 40
BandHi == 60

\* the fallback branch: a ValueError of float() is not caught here
ExtractLoose(s) ==
    LET m2 == search(LoosePattern, s)
    IN  IF m2.ok
        THEN LET a == float(group(LoosePattern, s, m2, 1))
                 b == float(group(LoosePattern, s, m2, 2))
             IN  IF a = ValueError \/ b = ValueError THEN Raised
                 ELSE IF Between(BandLo, a, BandHi) THEN <<a, b>>
                 ELSE IF Between(BandLo, b, BandHi) THEN <<b, a>>
                 ELSE <<a, b>>
        ELSE <<None, None>>

\* mutant of ExtractPoint: the first number taken as the latitude
ExtractPointUnswapped(s, m) ==
    LET lat == float(group(PointPattern, s, m, 1))
        lon == float(group(PointPattern, s, m, 2))
    IN  IF lon = ValueError \/ lat = ValueError THEN <<None, None>>
        ELSE <<lat, lon>>

\* the POINT branch: try: ... except Exception: return (None, None)
ExtractPoint(s, m) ==
    LET lon == float(group(PointPattern, s, m, 1))
        lat == float(group(PointPattern, s, m, 2))
    IN  IF lon = ValueError \/ lat = ValueError THEN <<None, None>>
        ELSE <<lat, lon>>

ExtractLatLon(v) ==
    IF isna(v) THEN <<None, None>>
    ELSE LET m == search(PointPattern, v)
         IN  IF m.ok THEN ExtractPoint(v, m) ELSE ExtractLoose(v)


-----------------------------------------------------------------------------
(* Configuration tables *)

GRAVITE ==
    Text("Accident grave") :> 5 @@
    Text("Inondation") :> 4 @@
    Text("Bouchon {U+2013} trafic {U+00E0} l'arr{U+00EA}t") :> 3 @@
    Text("Accident l{U+00E9}ger") :> 3 @@
    Text("Bouchon {U+2013} trafic dense") :> 2 @@
    Text("Panne de feu tricolore") :> 2 @@
    Text("Nid-de-poule") :> 1

VILLES_SERVICE_COMMUN ==
    { Text("Palaiseau"), Text("Orsay"), Text("Villejust"), Text("Ballainvilliers"),
      Text("Verri{U+00E8}res-le-Buisson"), Text("La Ville-du-Bois"),
      Text("Les Ulis"), Text("Saclay"), Text("Wissous"),
      Text("Villebon-sur-Yvette"), Text("Saulx-les-Chartreux"),
      Text("Villiers-le-B{U+00E2}cle"), Text("Linas"), Text("Vauhallan"),
      Text("Saint-Aubin"), Text("Longjumeau"), Text("Marcoussis"), Text("Nozay"),
      Text("Epinay-sur-Orge"), Text("Igny") }

\* in the order of the dict, which is the order of the loop
FILES ==
    << [file |-> "Waze heavy traffic.csv",
        scenario |-> Text("Bouchon {U+2013} trafic dense")],
       [file |-> "Waze stand still traffic.csv",
        scenario |-> Text("Bouchon {U+2013} trafic {U+00E0} l{U+2019}arr{U+00EA}t")],
       [file |-> "Waze accident minor.csv", scenario |-> Text("Accident l{U+00E9}ger")],
       [file |-> "Waze accident major.csv", scenario |-> Text("Accident grave")],
       [file |-> "Waze pot_hole.csv", scenario |-> Text("Nid-de-poule")],
       [file |-> "HAZARD_ON_ROAD_TRAFFIC_LIGHT_FAULT.csv",
        scenario |-> Text("Panne de feu tricolore")],
       [file |-> "HAZARD_WEATHER_FLOOD.csv", scenario |-> Text("Inondation")] >>

\* FILES.get(name, "Upload")
FilesGet(name) ==
    IF \E k \in 1..Len(FILES) : FILES[k].file = name
    THEN FILES[CHOOSE k \in 1..Len(FILES) : FILES[k].file = name].scenario
    ELSE Text("Upload")

-----------------------------------------------------------------------------
(* Data frames: a set of column names and a sequence of rows, each row a   *)
(* function from the column names to cells.                                *)

EmptyFrame == [cols |-> {}, rows |-> <<>>]

NRows(df) == Len(df.rows)

\* df[col] = vals, position by position
Assign(df, col, vals) ==
    [cols |-> df.cols \cup {col},
     rows |-> [k \in 1..NRows(df) |->
                 [c \in df.cols \cup {col} |->
                    IF c = col THEN vals[k] ELSE df.rows[k][c]]]]

\* df[col] = v, the same value on every row
AssignAll(df, col, v) == Assign(df, col, [k \in 1..NRows(df) |-> v])

Column(df, col) == [k \in 1..NRows(df) |-> df.rows[k][col]]

\* Series.fillna(v) of a text column
fillna(vals, v) == [k \in 1..Len(vals) |-> IF isna(vals[k]) THEN v ELSE vals[k]]

\* what concat puts in a column a table does not have
Blank(col) == IF col \in {"latitude", "longitude"} THEN NumNaN ELSE NaN

Widen(row, cols) ==
    [c \in cols |-> IF c \in DOMAIN row THEN row[c] ELSE Blank(c)]

RECURSIVE UnionCols(_)
UnionCols(frames) ==
    IF frames = <<>> THEN {} ELSE Head(frames).cols \cup UnionCols(Tail(frames))

RECURSIVE AllRowsLastFirst(_)
\* mutant of AllRows: the tables are stacked last first
AllRowsLastFirst(frames) ==
    IF frames = <<>> THEN <<>> ELSE AllRowsLastFirst(Tail(frames)) \o Head(frames).rows

RECURSIVE AllRows(_)
AllRows(frames) ==
    IF frames = <<>> THEN <<>> ELSE Head(frames).rows \o AllRows(Tail(frames))

\* pd.concat(frames, ignore_index=True)
concat(frames) ==
    LET cols == UnionCols(frames)
        rows == AllRows(frames)
    IN  [cols |-> cols, rows |-> [k \in 1..Len(rows) |-> Widen(rows[k], cols)]]

-----------------------------------------------------------------------------
(* pd.to_datetime(..., errors="coerce", dayfirst=True) on the texts of the *)
(* model: DD/MM/YYYY, anything else gives NaT.  A text whose first number  *)
(* can only be a month (03/13/2024) is read differently by different       *)
(* versions of the library and is not among the inputs.                    *)

TwoDigits(t, i) == 10 * DigitVal(t[i]) + DigitVal(t[i + 1])

DaysIn(m, y) ==
    IF m \in {4, 6, 9, 11} THEN 30
    ELSE IF m = 2 THEN (IF y % 4 = 0 /\ (y % 100 # 0 \/ y % 400 = 0) THEN 29 ELSE 28)
    ELSE 31

to_datetime(t) ==
    IF isna(t) THEN NaT
    ELSE IF /\ Len(t) = 10 /\ t[3] = "/" /\ t[6] = "/"
            /\ \A i \in {1, 2, 4, 5, 7, 8, 9, 10} : t[i] \in ClsDigit
         THEN LET d == TwoDigits(t, 1)
                  m == TwoDigits(t, 4)
                  y == 100 * TwoDigits(t, 7) + TwoDigits(t, 9)
              IN  IF m \in 1..12 /\ d \in 1..DaysIn(m, y)
                  THEN [y |-> y, m |-> m, d |-> d]
                  ELSE NaT
         ELSE NaT

-----------------------------------------------------------------------------
(* The cell texts of the files of the model *)

DateOk == <<"0", "5", "/", "0", "3", "/", "2", "0", "2", "4">>
DateLater == <<"0", "7", "/", "0", "3", "/", "2", "0", "2", "4">>
DateNoSuchDay == <<"3", "1", "/", "0", "2", "/", "2", "0", "2", "4">>
DateGarbage == <<"h", "i", "e", "r">>
PointA == <<"P", "O", "I", "N", "T", "(", "2", ".", "2", " ", "4", "8", ".", "7", ")">>
PointB == <<"P", "o", "i", "n", "t", "(", "2", ".", "3", ",", " ", "4", "8", ".", "8", ")">>
LooseLonLat == <<"2", ".", "3", ";", "4", "8", ".", "7">>
LooseLatLon == <<"4", "8", ".", "7", " ", "2", ".", "3">>
LooseNeither == <<"1", "0", " ", "2", "0">>
NoLocation == <<"n", "/", "a">>

-----------------------------------------------------------------------------
(* _parse_location_column *)

\* pd.to_numeric(pd.Series(xs), errors="coerce"): None becomes NaN
to_numeric(xs) == [k \in 1..Len(xs) |-> IF xs[k] = None THEN NumNaN ELSE xs[k]]

\* _extract_lat_lon on the Location cells that occur in the files of the
\* model, computed once
LocationCells ==
    {NaN, PointA, PointB, LooseLonLat, LooseLatLon, LooseNeither, NoLocation}

ExtractedOnce == [v \in LocationCells |-> ExtractLatLon(v)]

Extracted(v) == IF v \in LocationCells THEN ExtractedOnce[v] ELSE ExtractLatLon(v)

LatLons(df) == [k \in 1..NRows(df) |-> Extracted(df.rows[k]["Location"])]

\* whether _extract_lat_lon raises on a row of the table
LocationRaises(df) ==
    "Location" \in df.cols /\ \E k \in 1..NRows(df) : LatLons(df)[k] = Raised

ParseLocationColumn(df) ==
    IF "Location" \notin df.cols THEN df
    ELSE LET lats == [k \in 1..NRows(df) |-> LatLons(df)[k][1]]
             lons == [k \in 1..NRows(df) |-> LatLons(df)[k][2]]
         IN  Assign(Assign(df, "latitude", to_numeric(lats)),
                    "longitude", to_numeric(lons))

-----------------------------------------------------------------------------
(* load_data: the steps on one table *)

\* mutant of NormalizeCity: a City column that exists is left as it is
NormalizeCityAbsentOnly(df) ==
    IF "City" \notin df.cols THEN AssignAll(df, "City", Text("Inconnue")) ELSE df

NormalizeCity(df) ==
    IF "City" \notin df.cols
    THEN AssignAll(df, "City", Text("Inconnue"))
    ELSE Assign(df, "City", fillna(Column(df, "City"), Text("Inconnue")))

NormalizeStreet(df) ==
    IF "Street" \notin df.cols THEN AssignAll(df, "Street", <<>>) ELSE df

NormalizeDate(df) ==
    IF "Date" \in df.cols
    THEN Assign(df, "Date", [k \in 1..NRows(df) |-> to_datetime(df.rows[k]["Date"])])
    ELSE AssignAll(df, "Date", NaT)

\* mutant of NormalizeSource: a scenario column of the file is kept
NormalizeSourceKeep(df, scenario) ==
    LET out == ParseLocationColumn(NormalizeDate(NormalizeStreet(NormalizeCity(df))))
    IN  IF "scenario" \in df.cols THEN out ELSE AssignAll(out, "scenario", scenario)

\* lines 147-166 (and 188-200): one table read, up to dfs.append(df)
NormalizeSource(df, scenario) ==
    AssignAll(ParseLocationColumn(NormalizeDate(NormalizeStreet(NormalizeCity(df)))),
              "scenario", scenario)

\* mutant of Gravite: .fillna(0)
GraviteZero(scenario) ==
    IF scenario \in DOMAIN GRAVITE THEN GRAVITE[scenario] ELSE 0

\* .map(GRAVITE).fillna(1).astype(int)
Gravite(scenario) ==
    IF scenario \in DOMAIN GRAVITE THEN GRAVITE[scenario] ELSE 1

\* mutant of KeepCities: only the rows without a city are dropped
KeepNamed(df) ==
    [cols |-> df.cols,
     rows |-> SelectSeq(df.rows, LAMBDA r : r["City"] # Text("Inconnue"))]

\* mutant of KeepCities: the rows without a date are dropped too
KeepCitiesDated(df) ==
    [cols |-> df.cols,
     rows |-> SelectSeq(df.rows, LAMBDA r :
                 r["City"] \in VILLES_SERVICE_COMMUN /\ r["Date"] # NaT)]

KeepCities(df) ==
    [cols |-> df.cols,
     rows |-> SelectSeq(df.rows, LAMBDA r : r["City"] \in VILLES_SERVICE_COMMUN)]

\* lines 212-223: concatenation, filter, gravite
Finish(frames) ==
    LET all == concat(frames)
        named == NormalizeCity(all)
        kept == KeepCities(named)
    IN  Assign(kept, "gravite",
               [k \in 1..NRows(kept) |-> Gravite(kept.rows[k]["scenario"])])

-----------------------------------------------------------------------------
(* The CSV files of the model, as pd.read_csv returns them.  Every file    *)
(* has a column "id" whose cell <<slot, k>> names the file (its position    *)
(* in FILES, or Len(FILES) + its position among the uploads) and the row.   *)

Row(city, street, date, location) ==
    [c \in {"City", "Street", "Date", "Location"} |->
        CASE c = "City" -> city [] c = "Street" -> street
          [] c = "Date" -> date [] c = "Location" -> location]

Only(row, cols) == [c \in cols |-> row[c]]

With(row, col, v) == [c \in DOMAIN row \cup {col} |-> IF c = col THEN v ELSE row[c]]


StandardCols == {"City", "Street", "Date", "Location"}

\* a Waze export: one row of an allowed city, one of another city
TableExport ==
    [cols |-> StandardCols,
     rows |-> << Row(Text("Palaiseau"), Text("Rue de Paris"), DateOk, PointA),
                 Row(Text("Paris"), NaN, DateNoSuchDay, PointB) >>]

\* rows whose date and location are malformed or missing, in a file that
\* has a latitude column of its own next to its Location column
TableMalformed ==
    [cols |-> StandardCols \cup {"latitude"},
     rows |-> << With(Row(Text("Orsay"), Text("Rue de Paris"), DateGarbage, NoLocation),
                      "latitude", [num |-> 15, den |-> 10]),
                 With(Row(Text("Palaiseau"), NaN, NaN, NaN), "latitude", NumNaN) >>]

\* no City column
TableNoCity ==
    [cols |-> {"Street", "Date", "Location"},
     rows |-> << Only(Row(NaN, Text("Rue de Paris"), DateOk, PointA),
                      {"Street", "Date", "Location"}) >>]

\* no Street, Date or Location column, and a scenario column of its own
TableOwnScenario ==
    [cols |-> {"City", "scenario"},
     rows |-> << With(Only(Row(Text("Orsay"), NaN, NaN, NaN), {"City"}),
                      "scenario", Text("Inondation")),
                 With(Only(Row(NaN, NaN, NaN, NaN), {"City"}),
                      "scenario", Text("Accident grave")) >>]

\* no Location column, and a latitude column of its own
TableOwnLatitude ==
    [cols |-> {"City", "latitude"},
     rows |-> << With(Only(Row(Text("Palaiseau"), NaN, NaN, NaN), {"City"}),
                      "latitude", [num |-> 487, den |-> 10]) >>]

\* a header and no row
TableHeaderOnly == [cols |-> StandardCols, rows |-> <<>>]

\* loose pairs in the Location column
TableLoose ==
    [cols |-> {"City", "Location"},
     rows |-> << Only(Row(Text("Igny"), NaN, NaN, LooseLonLat), {"City", "Location"}),
                 Only(Row(Text("Orsay"), NaN, NaN, LooseLatLon), {"City", "Location"}),
                 Only(Row(Text("Linas"), NaN, NaN, LooseNeither), {"City", "Location"}) >>]

\* no Location column, and latitude and longitude columns of its own, of
\* texts: a row whose texts are no numbers, a row whose texts are numbers
\* (the cell is what float() makes of the text), a row with no longitude
OwnCoordinates(city, date, lat, lon) ==
    [c \in {"City", "Date", "latitude", "longitude"} |->
        CASE c = "City" -> city [] c = "Date" -> date
          [] c = "latitude" -> lat [] c = "longitude" -> lon]

TableOwnCoordinates ==
    [cols |-> {"City", "Date", "latitude", "longitude"},
     rows |-> << OwnCoordinates(Text("Orsay"), DateLater, NotNumber, NotNumber),
                 OwnCoordinates(Text("Palaiseau"), DateLater,
                                [num |-> 487, den |-> 10], [num |-> 22, den |-> 10]),
                 OwnCoordinates(Text("Palaiseau"), DateOk,
                                [num |-> 486, den |-> 10], NumNaN) >>]

Tables ==
    { TableExport, TableMalformed, TableNoCity, TableOwnScenario, TableOwnLatitude,
      TableHeaderOnly, TableLoose }

\* the files of the runs whose page is modelled
DashboardTables == Tables \cup {TableOwnCoordinates}

Stamp(df, slot) == Assign(df, "id", [k \in 1..NRows(df) |-> <<slot, k>>])

UploadNames == {"Waze accident major.csv", "export.csv"}

UploadFiles ==
    [name : UploadNames, kind : {"table"}, frame : Tables]
    \cup [name : UploadNames, kind : {"corrupt"}, frame : {EmptyFrame}]

UploadLists ==
    UNION { [1..n -> UploadFiles] : n \in 1..MaxUploads }

-----------------------------------------------------------------------------
(* The page: values of the sidebar, the filter, get_cached_pdf and         *)
(* generate_waze_map                                                       *)

\* a datetime.date, and a tuple of them, as values of the date input
DateVal(d) == [tuple |-> FALSE, dates |-> <<d>>]
TupleVal(ds) == [tuple |-> TRUE, dates |-> ds]

\* a <= b on dates
DateLeq(a, b) ==
    \/ a.y < b.y
    \/ a.y = b.y /\ (a.m < b.m \/ (a.m = b.m /\ a.d <= b.d))

\* one element of  df["Date"].dt.date >= bound  and of  ... <= bound : a
\* null date compares False whatever the bound is; a date against a tuple
\* is a TypeError of Python
DateGe(cell, bound) ==
    IF cell = NaT THEN "False"
    ELSE IF bound.tuple THEN "TypeError"
    ELSE IF DateLeq(bound.dates[1], cell) THEN "True" ELSE "False"

DateLe(cell, bound) ==
    IF cell = NaT THEN "False"
    ELSE IF bound.tuple THEN "TypeError"
    ELSE IF DateLeq(cell, bound.dates[1]) THEN "True" ELSE "False"

Range(seq) == {seq[k] : k \in 1..Len(seq)}

\* waze[waze["City"].isin(ville)]
IsIn(w, v) ==
    [cols |-> w.cols, rows |-> SelectSeq(w.rows, LAMBDA r : r["City"] \in Range(v))]

\* lines 507-513: the table shown.  multiselect gives a list, so line 507
\* takes its isin branch.
SidebarFilter(w, v, dr) ==
    LET byCity == IsIn(w, v)
    IN  IF dr.tuple /\ Len(dr.dates) = 2
        THEN [cols |-> w.cols,
              rows |-> SelectSeq(byCity.rows, LAMBDA r :
                          /\ DateGe(r["Date"], DateVal(dr.dates[1])) = "True"
                          /\ DateLe(r["Date"], DateVal(dr.dates[2])) = "True")]
        ELSE IF ~dr.tuple
        THEN [cols |-> w.cols,
              rows |-> SelectSeq(byCity.rows, LAMBDA r : r["Date"] = dr.dates[1])]
        ELSE byCity

NoPdf == [status |-> "none", exc |-> "none", title |-> <<>>, frame |-> EmptyFrame]

\* lines 292-452: the report is made from the title and the table; with
\* rows it reads the first and last date of the table, which are dates
\* because every row passed the date mask of line 484
generate_pdf_report(title, d) ==
    [status |-> "ok", exc |-> "none", title |-> title, frame |-> d]

\* lines 474-485
get_cached_pdf(w, v, date_tuple) ==
    LET date_min == date_tuple[1]
        date_max == date_tuple[2]
        ville_str == IF v # <<>> THEN v[1] ELSE Text("Rapport")
        df_filtered == IsIn(w, v)
        ge == [k \in 1..NRows(df_filtered) |-> DateGe(df_filtered.rows[k]["Date"], date_min)]
        le == [k \in 1..NRows(df_filtered) |-> DateLe(df_filtered.rows[k]["Date"], date_max)]
    IN  IF \E k \in 1..NRows(df_filtered) : ge[k] = "TypeError" \/ le[k] = "TypeError"
        THEN [status |-> "raised", exc |-> "TypeError", title |-> ville_str,
              frame |-> EmptyFrame]
        ELSE generate_pdf_report(ville_str,
                 [cols |-> w.cols,
                  rows |-> SelectSeq(df_filtered.rows, LAMBDA r :
                              /\ DateGe(r["Date"], date_min) = "True"
                              /\ DateLe(r["Date"], date_max) = "True")])

\* lines 521-524: the call of the export
ExportCall(w, v, dr) ==
    IF dr.tuple /\ Len(dr.dates) = 2
    THEN get_cached_pdf(w, v, <<DateVal(dr.dates[1]), DateVal(dr.dates[2])>>)
    ELSE get_cached_pdf(w, v, <<dr, dr>>)

\* float(lat) of line 260 on a cell that is not null
ToFloat(c) == IF c = NotNumber THEN ValueError ELSE c

\* a + b on decimal fractions
Plus2(a, b) ==
    IF a.den >= b.den
    THEN Normal(a.num + b.num * (a.den \div b.den), a.den)
    ELSE Normal(a.num * (b.den \div a.den) + b.num, b.den)

RECURSIVE Sum(_)
Sum(xs) == IF xs = <<>> THEN [num |-> 0, den |-> 1] ELSE Plus2(Head(xs), Sum(Tail(xs)))

\* Series.mean(): the sum of the column and the number of its rows
Mean(xs) == [sum |-> Sum(xs), n |-> Len(xs)]

\* location=[48.7, 2.25]
DefaultCenter ==
    [lat |-> Mean(<<[num |-> 487, den |-> 10]>>),
     lon |-> Mean(<<[num |-> 225, den |-> 100]>>)]

NoMap == [made |-> FALSE, center |-> DefaultCenter, markers |-> <<>>, said |-> "warning"]

NotNull(r) == r["latitude"] # NumNaN /\ r["longitude"] # NumNaN

\* mutant of Locatable: float() of line 260 never fails
LocatableNotNull(r) == NotNull(r)

\* lines 255-262: the rows of the loop that get to line 285
Locatable(r) ==
    /\ NotNull(r)
    /\ ToFloat(r["latitude"]) # ValueError /\ ToFloat(r["longitude"]) # ValueError

\* folium.Marker(location=[lat, lon], ...) of a row
Marker(r) ==
    [location |-> <<ToFloat(r["latitude"]), ToFloat(r["longitude"])>>,
     id |-> r["id"], scenario |-> r["scenario"]]

\* lines 228-287
generate_waze_map(d) ==
    IF "latitude" \notin d.cols \/ "longitude" \notin d.cols
    THEN [made |-> TRUE, center |-> DefaultCenter, markers |-> <<>>, said |-> "warning"]
    ELSE LET kept == SelectSeq(d.rows, NotNull)
             lats == [k \in 1..Len(kept) |-> ToFloat(kept[k]["latitude"])]
             lons == [k \in 1..Len(kept) |-> ToFloat(kept[k]["longitude"])]
             shown == SelectSeq(kept, Locatable)
         IN  IF kept = <<>>
             THEN [made |-> TRUE, center |-> DefaultCenter, markers |-> <<>>,
                   said |-> "info"]
             ELSE [made |-> TRUE,
                   center |-> IF ValueError \in Range(lats) \cup Range(lons)
                              THEN DefaultCenter
                              ELSE [lat |-> Mean(lats), lon |-> Mean(lons)],
                   markers |-> [k \in 1..Len(shown) |-> Marker(shown[k])],
                   said |-> "nothing"]

\* lines 779-787: the map section of the page
MapSection(d) == IF NRows(d) = 0 THEN NoMap ELSE generate_waze_map(d)

NoDates == TupleVal(<<>>)

DashboardIdle ==
    /\ stage = "load"
    /\ ville = <<>>
    /\ date_range = NoDates
    /\ df_shown = EmptyFrame
    /\ pdf = NoPdf
    /\ fmap = NoMap

-----------------------------------------------------------------------------
(* load_data *)

Unread == [kind |-> "unread", frame |-> EmptyFrame]
Absent == [kind |-> "absent", frame |-> EmptyFrame]
Corrupt == [kind |-> "corrupt", frame |-> EmptyFrame]

Existing == {k \in 1..Len(FILES) : disk[k].kind \in {"corrupt", "table"}}

Message(level, names) == [level |-> level, about |-> names]

InitLoad ==
    /\ pc = "loop"
    /\ idx = 1
    /\ disk = [k \in 1..Len(FILES) |-> Unread]
    /\ uploaded = <<>>
    /\ dfs = <<>>
    /\ missing = <<>>
    /\ log = <<>>
    /\ exc = "none"
    /\ waze = EmptyFrame

ParserIdle ==
    /\ val = <<>>
    /\ wrapped = FALSE
    /\ phase = "input"
    /\ res = Unset

Init == InitLoad /\ ParserIdle /\ DashboardIdle

\* mutant of SourceMissing: the name is not recorded
SourceMissingUnrecorded ==
    /\ pc = "loop" /\ idx <= Len(FILES)
    /\ disk' = [disk EXCEPT ![idx] = Absent]
    /\ idx' = idx + 1
    /\ UNCHANGED <<pc, uploaded, dfs, missing, log, exc, waze>>
    /\ UNCHANGED pvars
    /\ UNCHANGED dvars

\* lines 138-140: the path does not exist
SourceMissing ==
    /\ pc = "loop" /\ idx <= Len(FILES)
    /\ disk' = [disk EXCEPT ![idx] = Absent]
    /\ missing' = Append(missing, FILES[idx].file)
    /\ idx' = idx + 1
    /\ UNCHANGED <<pc, uploaded, dfs, log, exc, waze>>
    /\ UNCHANGED pvars
    /\ UNCHANGED dvars

\* lines 141-145: pd.read_csv raises; the error is shown and raised again
SourceUnreadable ==
    /\ pc = "loop" /\ idx <= Len(FILES)
    /\ Cardinality(Existing) < MaxFiles
    /\ disk' = [disk EXCEPT ![idx] = Corrupt]
    /\ log' = Append(log, Message("error", <<FILES[idx].file>>))
    /\ exc' = "ReadError"
    /\ pc' = "raised"
    /\ UNCHANGED <<idx, uploaded, dfs, missing, waze>>
    /\ UNCHANGED pvars
    /\ UNCHANGED dvars

\* lines 141-168: the file is read, normalised and appended
SourceRead(tbl) ==
    /\ pc = "loop" /\ idx <= Len(FILES)
    /\ Cardinality(Existing) < MaxFiles
    /\ LET df == Stamp(tbl, idx)
       IN  /\ disk' = [disk EXCEPT ![idx] = [kind |-> "table", frame |-> df]]
           /\ IF LocationRaises(df)
              THEN /\ exc' = "ValueError"
                   /\ pc' = "raised"
                   /\ UNCHANGED <<idx, dfs>>
              ELSE /\ dfs' = Append(dfs, NormalizeSource(df, FILES[idx].scenario))
                   /\ idx' = idx + 1
                   /\ UNCHANGED <<pc, exc>>
    /\ UNCHANGED <<uploaded, missing, log, waze>>
    /\ UNCHANGED pvars
    /\ UNCHANGED dvars

\* lines 170-173: after the loop
EndLoop ==
    /\ pc = "loop" /\ idx > Len(FILES)
    /\ log' = IF missing # <<>> THEN Append(log, Message("warning", missing)) ELSE log
    /\ pc' = IF dfs = <<>> THEN "fallback" ELSE "concat"
    /\ UNCHANGED <<idx, disk, uploaded, dfs, missing, exc, waze>>
    /\ UNCHANGED pvars
    /\ UNCHANGED dvars

\* mutant of FallbackNoUpload: an empty table is returned
FallbackNoUploadEmpty ==
    /\ pc = "fallback"
    /\ log' = Append(log, Message("error", <<>>))
    /\ pc' = "done"
    /\ UNCHANGED <<idx, disk, uploaded, dfs, missing, exc, waze>>
    /\ UNCHANGED pvars
    /\ UNCHANGED dvars

\* lines 175-181, 204-209: nothing uploaded
FallbackNoUpload ==
    /\ pc = "fallback"
    /\ log' = Append(log, Message("error", <<>>))
    /\ exc' = "FileNotFoundError"
    /\ pc' = "raised"
    /\ UNCHANGED <<idx, disk, uploaded, dfs, missing, waze>>
    /\ UNCHANGED pvars
    /\ UNCHANGED dvars

RECURSIVE ReadUploads(_, _, _)
\* lines 182-201: the loop on the uploaded files, from file k on
ReadUploads(files, k, acc) ==
    IF k > Len(files) THEN [exc |-> "none", name |-> "", frames |-> acc]
    ELSE IF files[k].kind = "corrupt"
    THEN [exc |-> "ReadError", name |-> files[k].name, frames |-> acc]
    ELSE IF LocationRaises(files[k].frame)
    THEN [exc |-> "ValueError", name |-> "", frames |-> acc]
    ELSE ReadUploads(files, k + 1,
             Append(acc, NormalizeSource(files[k].frame, FilesGet(files[k].name))))

StampUploads(files) ==
    [k \in 1..Len(files) |->
        [files[k] EXCEPT !.frame =
            IF files[k].kind = "table" THEN Stamp(@, Len(FILES) + k) ELSE @]]

\* lines 175-203: files uploaded
FallbackUpload(files) ==
    /\ pc = "fallback"
    /\ uploaded' = StampUploads(files)
    /\ LET r == ReadUploads(uploaded', 1, dfs)
           shown == Append(log, Message("error", <<>>))
       IN  /\ dfs' = r.frames
           /\ log' = IF r.exc = "ReadError"
                     THEN Append(shown, Message("error", <<r.name>>))
                     ELSE shown
           /\ exc' = IF r.exc # "none" THEN r.exc
                     ELSE IF r.frames = <<>> THEN "FileNotFoundError"
                     ELSE "none"
           /\ pc' = IF exc' = "none" THEN "concat" ELSE "raised"
    /\ UNCHANGED <<idx, disk, missing, waze>>
    /\ UNCHANGED pvars
    /\ UNCHANGED dvars

\* lines 212-223
Concat ==
    /\ pc = "concat"
    /\ waze' = Finish(dfs)
    /\ pc' = "done"
    /\ UNCHANGED <<idx, disk, uploaded, dfs, missing, log, exc>>
    /\ UNCHANGED pvars
    /\ UNCHANGED dvars

Next ==
    \/ SourceMissing
    \/ SourceUnreadable
    \/ \E tbl \in Tables : SourceRead(tbl)
    \/ EndLoop
    \/ FallbackNoUpload
    \/ \E files \in UploadLists : FallbackUpload(files)
    \/ Concat

Spec == Init /\ [][Next]_vars

-----------------------------------------------------------------------------
(* The parser on its own: every cell text of at most MaxLen characters over *)
(* Alphabet, bare or set in one of Frames, and the missing cell.            *)

Alphabet == {"4", "6", "0", ".", "-", " ", ",", ";", "x"}

\* a frame is the text put before and the text put after the typed text
Frames ==
    { << <<"P","O","I","N","T","(">>, <<")">> >>,
      << <<"p","o","i","n","t"," ","(">>, <<" ",")">> >>,
      << <<"P","o","i","n","t","("," ","+">>, <<")"," ","4"," ","6">> >>,
      << <<"5"," ","5","P","O","I","N","T","(">>, <<")">> >>,
      << <<"P","O","I","N","T","(">>, <<>> >>,
      << <<"P","O","I","N","(">>, <<")">> >>,
      << <<"i","d",":">>, <<";","5","0">> >>,
      << <<>>, <<"0">> >>,
      << <<>>, <<"6">> >>,
      << <<>>, <<"6","0">> >>,
      << <<"-">>, <<>> >> }

InitParser == ParserIdle /\ InitLoad /\ DashboardIdle

Type(c) ==
    /\ phase = "input" /\ ~wrapped /\ ~isna(val)
    /\ Len(val) < MaxLen
    /\ val' = Append(val, c)
    /\ UNCHANGED <<wrapped, phase, res>>
    /\ UNCHANGED bvars
    /\ UNCHANGED dvars

Wrap(f) ==
    /\ phase = "input" /\ ~wrapped /\ ~isna(val)
    /\ val' = f[1] \o val \o f[2]
    /\ wrapped' = TRUE
    /\ UNCHANGED <<phase, res>>
    /\ UNCHANGED bvars
    /\ UNCHANGED dvars

Missing ==
    /\ phase = "input" /\ ~wrapped /\ val = <<>>
    /\ val' = NaN
    /\ UNCHANGED <<wrapped, phase, res>>
    /\ UNCHANGED bvars
    /\ UNCHANGED dvars

Parse ==
    /\ phase = "input"
    /\ res' = ExtractLatLon(val)
    /\ phase' = "parsed"
    /\ UNCHANGED <<val, wrapped>>
    /\ UNCHANGED bvars
    /\ UNCHANGED dvars

NextParser ==
    \/ \E c \in Alphabet : Type(c)
    \/ \E f \in Frames : Wrap(f)
    \/ Missing
    \/ Parse

SpecParser == InitParser /\ [][NextParser]_vars

-----------------------------------------------------------------------------
(* The page on its own: the script from line 225 on, after a run of        *)
(* load_data that found some of the first MaxFiles files of FILES and read *)
(* them.                                                                   *)

Picks == UNION { [S -> DashboardTables] : S \in (SUBSET (1..MaxFiles)) \ {{}} }

LoadedDisk(pick) ==
    [k \in 1..Len(FILES) |->
        IF k \in DOMAIN pick
        THEN [kind |-> "table", frame |-> Stamp(pick[k], k)]
        ELSE Absent]

RECURSIVE LoadedFrames(_, _)
\* dfs after the loop on FILES, from file k on
LoadedFrames(dsk, k) ==
    IF k > Len(FILES) THEN <<>>
    ELSE IF dsk[k].kind = "table"
    THEN <<NormalizeSource(dsk[k].frame, FILES[k].scenario)>> \o LoadedFrames(dsk, k + 1)
    ELSE LoadedFrames(dsk, k + 1)

LoadedMissing(dsk) ==
    LET absent == SelectSeq([k \in 1..Len(FILES) |-> k], LAMBDA k : dsk[k].kind = "absent")
    IN  [n \in 1..Len(absent) |-> FILES[absent[n]].file]

InitDashboard ==
    /\ ParserIdle
    /\ \E pick \in Picks :
          /\ disk = LoadedDisk(pick)
          /\ dfs = LoadedFrames(disk, 1)
          /\ missing = LoadedMissing(disk)
    /\ idx = Len(FILES) + 1
    /\ uploaded = <<>>
    /\ log = IF missing # <<>> THEN <<Message("warning", missing)>> ELSE <<>>
    /\ exc = "none"
    /\ waze = Finish(dfs)
    /\ pc = "done"
    /\ stage = "sidebar"
    /\ ville = <<>>
    /\ date_range = NoDates
    /\ df_shown = EmptyFrame
    /\ pdf = NoPdf
    /\ fmap = NoMap

\* the options of the multiselect (line 494)
CityOptions(w) == {w.rows[k]["City"] : k \in 1..NRows(w)}

\* the lists the multiselect can give, of at most MaxVille cities
VilleLists(w) ==
    {v \in UNION { [1..n -> CityOptions(w)] : n \in 0..MaxVille } :
        \A i, j \in 1..Len(v) : v[i] = v[j] => i = j}

\* the dates of waze, which the date input offers between the first and
\* the last of them (lines 500-505)
DateOptions(w) == {w.rows[k]["Date"] : k \in 1..NRows(w)} \ {NaT}

\* the values the date input can give: two dates, the first of a range
\* being chosen, and one date
DateInputs(w) ==
    {TupleVal(<<p[1], p[2]>>) :
        p \in {q \in DateOptions(w) \X DateOptions(w) : DateLeq(q[1], q[2])}}
    \cup {TupleVal(<<a>>) : a \in DateOptions(w)}
    \cup {DateVal(a) : a \in DateOptions(w)}

\* lines 492-513
Select(v, dr) ==
    /\ stage = "sidebar"
    /\ ville' = v
    /\ date_range' = dr
    /\ df_shown' = SidebarFilter(waze, v, dr)
    /\ stage' = "export"
    /\ UNCHANGED <<pdf, fmap>>
    /\ UNCHANGED pvars
    /\ UNCHANGED bvars

\* lines 519-525: an exception of get_cached_pdf ends the script
Export ==
    /\ stage = "export"
    /\ pdf' = ExportCall(waze, ville, date_range)
    /\ stage' = IF pdf'.status = "raised" THEN "failed" ELSE "body"
    /\ UNCHANGED <<ville, date_range, df_shown, fmap>>
    /\ UNCHANGED pvars
    /\ UNCHANGED bvars

\* lines 779-787
Map ==
    /\ stage = "body"
    /\ fmap' = MapSection(df_shown)
    /\ stage' = "end"
    /\ UNCHANGED <<ville, date_range, df_shown, pdf>>
    /\ UNCHANGED pvars
    /\ UNCHANGED bvars

NextDashboard ==
    \/ \E v \in VilleLists(waze) : \E dr \in DateInputs(waze) : Select(v, dr)
    \/ Export
    \/ Map

SpecDashboard == InitDashboard /\ [][NextDashboard]_vars

-----------------------------------------------------------------------------
(* What a text contains, stated without the matcher: positions are found   *)
(* by the longest run of a class, numbers by their shape.                  *)

NumberChars == ClsSign \cup ClsDigit \cup ClsDot

\* the first position from pos on whose character is not in cls
After(s, pos, cls) ==
    CHOOSE q \in pos..(Len(s) + 1) :
        /\ \A j \in pos..(q - 1) : s[j] \in cls
        /\ q = Len(s) + 1 \/ s[q] \notin cls

Unsigned(t) ==
    /\ Len(t) > 0
    /\ t[Len(t)] \in ClsDigit
    /\ \A i \in 1..Len(t) : t[i] \in ClsDigit \cup ClsDot
    /\ \A i, j \in 1..Len(t) : t[i] = "." /\ t[j] = "." => i = j

\* a signed decimal: optional sign, digits, optional dot, at least one digit
\* after it
IsNumber(t) ==
    \/ Unsigned(t)
    \/ Len(t) > 1 /\ t[1] \in ClsSign /\ Unsigned(Tail(t))

Lower(c) ==
    CASE c = "P" -> "p" [] c = "O" -> "o" [] c = "I" -> "i"
      [] c = "N" -> "n" [] c = "T" -> "t" [] OTHER -> c

\* the point geometry that starts at position i of s, if there is one
GeometryAt(s, i) ==
    LET a == After(s, i + 5, ClsSpace)
        p == After(s, a + 1, ClsSpace)
        q == After(s, p, NumberChars)
        r == After(s, q, ClsSepPoint)
        u == After(s, r, NumberChars)
        z == After(s, u, ClsSpace)
    IN  IF /\ i + 5 <= Len(s)
           /\ <<Lower(s[i]), Lower(s[i + 1]), Lower(s[i + 2]), Lower(s[i + 3]),
                 Lower(s[i + 4])>> = <<"p", "o", "i", "n", "t">>
           /\ a <= Len(s) /\ s[a] = "("
           /\ IsNumber(SubSeq(s, p, q - 1))
           /\ r > q
           /\ IsNumber(SubSeq(s, r, u - 1))
           /\ z <= Len(s) /\ s[z] = ")"
        THEN [ok |-> TRUE, x |-> SubSeq(s, p, q - 1), y |-> SubSeq(s, r, u - 1)]
        ELSE [ok |-> FALSE, x |-> <<>>, y |-> <<>>]

HasGeometry(s) == \E i \in 1..Len(s) : GeometryAt(s, i).ok

FirstGeometry(s) ==
    GeometryAt(s, CHOOSE i \in 1..Len(s) :
        GeometryAt(s, i).ok /\ \A j \in 1..(i - 1) : ~GeometryAt(s, j).ok)

\* the pair of numbers that starts at position i of s, if there is one: a
\* number up to a separator, and the longest number after the separators
PairAt(s, i) ==
    LET q == After(s, i, NumberChars)
        r == After(s, q, ClsSepLoose)
        ends == {u \in r..Len(s) : IsNumber(SubSeq(s, r, u))}
        u == CHOOSE e \in ends : \A f \in ends : f <= e
    IN  IF IsNumber(SubSeq(s, i, q - 1)) /\ r > q /\ ends # {}
        THEN [ok |-> TRUE, a |-> SubSeq(s, i, q - 1), b |-> SubSeq(s, r, u)]
        ELSE [ok |-> FALSE, a |-> <<>>, b |-> <<>>]

HasPair(s) == \E i \in 1..Len(s) : PairAt(s, i).ok

FirstPair(s) ==
    PairAt(s, CHOOSE i \in 1..Len(s) :
        PairAt(s, i).ok /\ \A j \in 1..(i - 1) : ~PairAt(s, j).ok)

\* the decimal value of a number, as float() of it
ValueOf(t) == float(t)

InBand(f) == 40 * f.den <= f.num /\ f.num <= 60 * f.den

Parsed == phase = "parsed"

-----------------------------------------------------------------------------
(* Claims on the parser *)

\* C1: for every text that contains a point geometry POINT(x y) (any case,
\* optional whitespace, whitespace and/or commas between the numbers), the
\* parser returns latitude = y and longitude = x of the first such geometry,
\* also when a loose pair of numbers stands elsewhere in the text.
C1_PointSwapped ==
    (Parsed /\ ~isna(val) /\ HasGeometry(val)) =>
        res = <<ValueOf(FirstGeometry(val).y), ValueOf(FirstGeometry(val).x)>>

\* C1 witness: a loose pair "5 5" before POINT(4 6); the geometry wins
C1_Witness ==
    /\ Parsed
    /\ val = <<"5", " ", "5", "P", "O", "I", "N", "T", "(", "4", " ", "6", ")">>
    /\ res = <<[num |-> 6, den |-> 1], [num |-> 4, den |-> 1]>>

\* C2: for a text with no point geometry, the first pair (a, b) of numbers
\* separated by whitespace, commas or semicolons gives (a, b) if 40 <= a <= 60,
\* else (b, a) if 40 <= b <= 60, else (a, b); later numbers are ignored.
C2_LooseHeuristic ==
    (Parsed /\ ~isna(val) /\ ~HasGeometry(val) /\ HasPair(val)) =>
        LET a == ValueOf(FirstPair(val).a)
            b == ValueOf(FirstPair(val).b)
        IN  res = IF InBand(a) THEN <<a, b>>
                  ELSE IF InBand(b) THEN <<b, a>>
                  ELSE <<a, b>>

\* C2 witness: "id:4;50": a = 4 is outside the band, b = 50 inside: swapped
C2_Witness ==
    /\ Parsed
    /\ val = <<"i", "d", ":", "4", ";", "5", "0">>
    /\ res = <<[num |-> 50, den |-> 1], [num |-> 4, den |-> 1]>>

\* C3: a missing cell, an empty text, a text without digits, and a text with
\* neither a point geometry nor a pair of separated numbers, all give
\* (None, None), and the parser does not raise.
C3_NoneWhenUnparseable ==
    (Parsed /\ (\/ isna(val)
                \/ val = <<>>
                \/ \A i \in 1..Len(val) : val[i] \notin ClsDigit
                \/ ~HasGeometry(val) /\ ~HasPair(val))) =>
        res = <<None, None>>

\* C3 witness: "4.6" is one number only
C3_Witness ==
    /\ Parsed
    /\ val = <<"4", ".", "6">>
    /\ res = <<None, None>>

-----------------------------------------------------------------------------
(* Claims on load_data *)

Done == pc = "done"

\* the tables read, by slot: the files of FILES, then the uploads
RawFrames ==
    [k \in 1..Len(FILES) |-> disk[k].frame]
    \o [k \in 1..Len(uploaded) |-> uploaded[k].frame]

RawRowSet == UNION { {f.rows[k] : k \in 1..Len(f.rows)} : f \in {RawFrames[s] : s \in 1..Len(RawFrames)} }

RawOf(id) == RawFrames[id[1]].rows[id[2]]

OutRows == {waze.rows[k] : k \in 1..NRows(waze)}

HasCell(row, col) == col \in DOMAIN row

IsNull(row, col) == ~HasCell(row, col) \/ row[col] = NumNaN

AllowedRaw(row) == HasCell(row, "City") /\ row["City"] \in VILLES_SERVICE_COMMUN

LabelOfSlot(slot) ==
    IF slot <= Len(FILES) THEN FILES[slot].scenario
    ELSE FilesGet(uploaded[slot - Len(FILES)].name)

\* C4: every record of the returned dataset has a city of the allow-list,
\* whatever the sources hold and whichever are missing, uploads included.
C4_CityAllowed ==
    Done => \A o \in OutRows : o["City"] \in VILLES_SERVICE_COMMUN

\* C4 witness: the upload path returned records while a row of another city
\* had been uploaded
C4_Witness ==
    /\ Done /\ uploaded # <<>> /\ NRows(waze) > 0
    /\ \E r \in RawRowSet : HasCell(r, "City") /\ r["City"] = Text("Paris")

\* C5: the returned records are exactly the rows of the sources read whose
\* city is in the allow-list; a row whose date or location is malformed or
\* missing is kept, with a null date or null coordinates.
C5_OnlyCityDrops ==
    Done =>
        /\ {o["id"] : o \in OutRows} = {r["id"] : r \in {x \in RawRowSet : AllowedRaw(x)}}
        /\ NRows(waze) = Cardinality({x \in RawRowSet : AllowedRaw(x)})
        /\ \A o \in OutRows :
            LET r == RawOf(o["id"])
            IN  /\ (HasCell(r, "Date") /\ r["Date"] \in {NaN, DateGarbage, DateNoSuchDay})
                      => o["Date"] = NaT
                /\ (HasCell(r, "Location") /\ r["Location"] \in {NaN, NoLocation})
                      => (o["latitude"] = NumNaN /\ o["longitude"] = NumNaN)

\* C5 witness: a kept row whose date and location are both missing, next to
\* a kept row whose date is garbage
C5_Witness ==
    /\ Done
    /\ \E o \in OutRows :
          /\ RawOf(o["id"])["City"] = Text("Palaiseau")
          /\ HasCell(RawOf(o["id"]), "Date") /\ RawOf(o["id"])["Date"] = NaN
          /\ RawOf(o["id"])["Location"] = NaN
          /\ o["Date"] = NaT
    /\ \E o \in OutRows :
          /\ HasCell(RawOf(o["id"]), "Date") /\ RawOf(o["id"])["Date"] = DateGarbage
          /\ o["Date"] = NaT

Unavailable(k) == disk[k].kind \in {"absent", "corrupt"}

SomeSourceRead == \E k \in 1..Len(FILES) : disk[k].kind = "table"

AbsentNames ==
    SelectSeq([k \in 1..Len(FILES) |-> FILES[k].file],
              LAMBDA n : \E k \in 1..Len(FILES) : FILES[k].file = n /\ disk[k].kind = "absent")

\* C6 as stated: when a source cannot be read and another one is read, the
\* build succeeds and reports the sources it could not read; nothing but the
\* unavailability of every source makes the build fail.
C6_Original ==
    /\ (pc \in {"done", "raised"} /\ SomeSourceRead
          /\ \E k \in 1..Len(FILES) : Unavailable(k)) => pc = "done"
    /\ pc = "raised" => ~SomeSourceRead

\* C6 amended: when files of FILES do not exist and at least one exists, and
\* every file that exists parses, the build succeeds on the files read only
\* and reports the absent ones as missing; the build fails when a file that
\* exists (or is uploaded) cannot be parsed, whatever else was read, and when
\* no file exists and nothing is uploaded, and in no other case.
C6_Amended ==
    /\ (pc \in {"done", "raised"} /\ SomeSourceRead
          /\ \A k \in 1..Len(FILES) : disk[k].kind \in {"absent", "table"}) =>
          /\ pc = "done" /\ exc = "none"
          /\ \A o \in OutRows : disk[o["id"][1]].kind = "table"
          /\ (AbsentNames # <<>>) =>
                \E m \in 1..Len(log) : log[m] = [level |-> "warning", about |-> AbsentNames]
          /\ (AbsentNames = <<>>) =>
                \A m \in 1..Len(log) : log[m].level # "warning"
    /\ pc = "raised" =>
          \/ /\ exc = "ReadError"
             /\ \/ \E k \in 1..Len(FILES) : disk[k].kind = "corrupt"
                \/ \E k \in 1..Len(uploaded) : uploaded[k].kind = "corrupt"
          \/ /\ exc = "FileNotFoundError"
             /\ ~SomeSourceRead /\ uploaded = <<>>
    /\ (\/ \E k \in 1..Len(FILES) : disk[k].kind = "corrupt"
        \/ \E k \in 1..Len(uploaded) : uploaded[k].kind = "corrupt") =>
          pc = "raised" /\ exc = "ReadError"

\* C6 witness: one file absent, another read, the build done and the absent
\* file in the warning
C6_Witness ==
    /\ Done
    /\ disk[1].kind = "absent" /\ disk[2].kind = "table"
    /\ \E m \in 1..Len(log) :
          log[m].level = "warning" /\ log[m].about[1] = "Waze heavy traffic.csv"

NoSourceReadable == \A k \in 1..Len(FILES) : disk[k].kind \in {"absent", "corrupt"}

\* C7 as stated: no readable source of FILES and nothing uploaded: the build
\* fails with FileNotFoundError; if a source was read it does not.
C7_Original ==
    /\ (pc \in {"done", "raised"} /\ NoSourceReadable /\ uploaded = <<>>) =>
          (pc = "raised" /\ exc = "FileNotFoundError")
    /\ exc = "FileNotFoundError" => dfs = <<>>

\* C7 amended: no file of FILES exists and nothing uploaded: the build fails
\* with FileNotFoundError and returns nothing; a file that exists and does
\* not parse makes it fail with the read error instead; if a source was read
\* the build does not fail with FileNotFoundError.
C7_Amended ==
    /\ (pc \in {"done", "raised"} /\ uploaded = <<>>
          /\ \A k \in 1..Len(FILES) : disk[k].kind = "absent") =>
          (pc = "raised" /\ exc = "FileNotFoundError" /\ waze = EmptyFrame)
    /\ (pc \in {"done", "raised"} /\ \E k \in 1..Len(FILES) : disk[k].kind = "corrupt") =>
          (pc = "raised" /\ exc = "ReadError" /\ waze = EmptyFrame)
    /\ exc = "FileNotFoundError" =>
          (dfs = <<>> /\ ~SomeSourceRead
             /\ \A k \in 1..Len(uploaded) : uploaded[k].kind # "table")
    /\ Done => dfs # <<>>

\* C7 witness: every file absent, nothing uploaded, FileNotFoundError
C7_Witness ==
    /\ pc = "raised" /\ exc = "FileNotFoundError"
    /\ \A k \in 1..Len(FILES) : disk[k].kind = "absent"
    /\ uploaded = <<>>

\* C8: every returned record has an integer severity >= 1, the value of
\* GRAVITE for its scenario, or 1 when the scenario is no key of GRAVITE;
\* a record of scenario "Accident grave" has severity 5.
C8_Severity ==
    Done => \A o \in OutRows :
        /\ o["gravite"] \in Nat /\ o["gravite"] >= 1
        /\ o["scenario"] \in DOMAIN GRAVITE => o["gravite"] = GRAVITE[o["scenario"]]
        /\ o["scenario"] \notin DOMAIN GRAVITE => o["gravite"] = 1
        /\ o["scenario"] = Text("Accident grave") => o["gravite"] = 5

\* C8 witness: a record of "Accident grave" with 5 and a record whose
\* scenario "Upload" is no key, with 1
C8_Witness ==
    /\ Done
    /\ \E o \in OutRows : o["scenario"] = Text("Accident grave") /\ o["gravite"] = 5
    /\ \E o \in OutRows : o["scenario"] = Text("Upload") /\ o["gravite"] = 1

\* C9: in every returned record latitude and longitude are both present or
\* both null; a source without a Location column gives rows with both null.
C9_BothOrNeither ==
    Done => \A o \in OutRows :
        /\ IsNull(o, "latitude") <=> IsNull(o, "longitude")
        /\ ~HasCell(RawOf(o["id"]), "Location") =>
              (IsNull(o, "latitude") /\ IsNull(o, "longitude"))

\* C10: the scenario of every returned record is the label of the source it
\* was read from (FILES[file], or FILES.get(name, "Upload") for an upload),
\* also when the source has a scenario column of its own; records of one
\* source never differ in scenario.
C10_ScenarioOfSource ==
    Done =>
        /\ \A o \in OutRows : o["scenario"] = LabelOfSlot(o["id"][1])
        /\ \A o1, o2 \in OutRows :
              o1["id"][1] = o2["id"][1] => o1["scenario"] = o2["scenario"]

\* C10 witness: a record whose source had "Inondation" in its own scenario
\* column and which carries the label of its file instead
C10_Witness ==
    /\ Done
    /\ \E o \in OutRows :
          /\ HasCell(RawOf(o["id"]), "scenario")
          /\ RawOf(o["id"])["scenario"] = Text("Inondation")
          /\ o["scenario"] = Text("Accident grave")
          /\ o["id"][1] = 4

\* the rows of the normalised tables, before concatenation
NormalizedRows ==
    UNION { {dfs[n].rows[k] : k \in 1..NRows(dfs[n])} : n \in 1..Len(dfs) }

NoCity(row) == ~HasCell(row, "City") \/ row["City"] = NaN

Ids(rows) == [k \in 1..Len(rows) |-> rows[k]["id"]]

\* the row id <<slot, k>> comes before <<slot2, k2>> in the concatenation of
\* the sources: an earlier source, or the same source and an earlier row
Before(a, b) == a[1] < b[1] \/ (a[1] = b[1] /\ a[2] < b[2])

\* C12: the returned records stand in the declared order of their sources
\* and, within one source, in the row order of the source; they are the
\* allowed rows of the sources read, each once, so the returned dataset is
\* the concatenation of the sources without the rows the allow-list removes.
C12_OrderPreserved ==
    Done =>
        /\ \A i, j \in 1..NRows(waze) :
              i < j => Before(waze.rows[i]["id"], waze.rows[j]["id"])
        /\ {waze.rows[k]["id"] : k \in 1..NRows(waze)}
              = {r["id"] : r \in {x \in RawRowSet : AllowedRaw(x)}}

\* C12 witness: records of two sources, a row dropped between them
C12_Witness ==
    /\ Done /\ NRows(waze) >= 2
    /\ \E k \in 1..(NRows(waze) - 1) :
          /\ waze.rows[k]["id"][1] < waze.rows[k + 1]["id"][1]
          /\ \E r \in RawRowSet :
                /\ ~AllowedRaw(r)
                /\ r["id"][1] = waze.rows[k]["id"][1]
                /\ r["id"][2] > waze.rows[k]["id"][2]

\* C14: every label of FILES is a key of GRAVITE, and the records of a file
\* of FILES have the severity of its label: 3 for the stand-still-traffic
\* file, 2 for the dense-traffic file, never the default 1 for lack of a key.
C14_LabelsHaveSeverity ==
    /\ \A k \in 1..Len(FILES) : FILES[k].scenario \in DOMAIN GRAVITE
    /\ Done => \A o \in OutRows :
          /\ o["id"][1] <= Len(FILES) => o["scenario"] \in DOMAIN GRAVITE
          /\ (/\ o["id"][1] <= Len(FILES)
              /\ FILES[o["id"][1]].file = "Waze stand still traffic.csv")
                => o["gravite"] = 3
          /\ (/\ o["id"][1] <= Len(FILES)
              /\ FILES[o["id"][1]].file = "Waze heavy traffic.csv")
                => o["gravite"] = 2

-----------------------------------------------------------------------------
(* Claims on the page *)

ShownRows == {df_shown.rows[k] : k \in 1..NRows(df_shown)}

Marked(r) == \E k \in 1..Len(fmap.markers) : fmap.markers[k].id = r["id"]

BothCoordinates(r) == ~IsNull(r, "latitude") /\ ~IsNull(r, "longitude")

IsNumeric(r, col) == ~IsNull(r, col) /\ r[col] # NotNumber

MapDrawn == stage = "end" /\ NRows(df_shown) > 0

Exported == stage \in {"body", "end", "failed"}

PdfRows == {pdf.frame.rows[k] : k \in 1..NRows(pdf.frame)}

\* the date input holds a pair of dates or one date: line 511 or line 513
\* filters the table shown
DateFilterApplies == (date_range.tuple /\ Len(date_range.dates) = 2) \/ ~date_range.tuple

\* C15: for every choice of cities and every shape of the date input (a
\* pair of dates, one date, a range of which one date is chosen), the export
\* does not fail and the records of the PDF are the records of the table
\* shown; with a date filter, records with a null date are in neither.
C15_ExportMatchesPage ==
    Exported =>
        /\ pdf.status = "ok"
        /\ Ids(pdf.frame.rows) = Ids(df_shown.rows)
        /\ DateFilterApplies =>
              \A r \in PdfRows \cup ShownRows : r["Date"] # NaT

====
